---- MODULE Spec2Model ----
(***************************************************************************)
(* Secure inference worker of plant_backend: the encrypted-artifact        *)
(* pipeline (model_encryption.py, model_loader.py) and the line protocol   *)
(* of the worker process (inference_server.py).                            *)
(*                                                                         *)
(* Bytes are sequences of bits.  Fernet (cryptography library) and SHA-256 *)
(* are library primitives; they are modelled as an ideal authenticated     *)
(* cipher (a keyed, invertible stream transformation plus a collision-free *)
(* tag over key, iv and ciphertext) and a collision-free digest.           *)
(***************************************************************************)
EXTENDS Integers, Sequences, FiniteSets, TLC

\* ------------------------------------------------------------------ bounds
MaxPlainLen == 1
MaxRequests == 3
PipelineRequests == 1
MaxTamper == 1

\* ------------------------------------------------------------------ values
Bit == {0, 1}
Keys == {"K1", "K2"}
IVs == Bit
NoFile == "NoFile"
BadKey == "BadKey"
None == "None"

Plaintexts == UNION {[1..n -> Bit] : n \in 0..MaxPlainLen}

Pow2(n) == 2 ^ n

Xor(a, b) == (a + b) % 2

\* bit j (0 = least significant) of the natural number n, flipped
FlipBit(n, j) == IF (n \div Pow2(j)) % 2 = 1 THEN n - Pow2(j) ELSE n + Pow2(j)

RECURSIVE BitsVal(_)
BitsVal(s) == IF s = <<>> THEN 0 ELSE 2 * BitsVal(SubSeq(s, 1, Len(s) - 1)) + s[Len(s)]

\* injective numbering of bit strings of any length
Code(s) == Pow2(Len(s)) + BitsVal(s)

\* hashlib.sha256(data).hexdigest(): collision-free digest of the byte string
sha256(data) == Code(data)

HashBits == MaxPlainLen + 1

\* ------------------------------------------------------------------ Fernet
MacBase == Pow2(MaxPlainLen + 2)
TagBits == MaxPlainLen + 4

KeyNum(key) == IF key = "K1" THEN 1 ELSE 2

KeyStream(key, iv, i) == (KeyNum(key) + iv + i) % 2

HMAC(key, iv, ct) == KeyNum(key) * MacBase + Code(<<iv>> \o ct)

\* Fernet(key).encrypt(data) with the random iv drawn by the library
fernet_encrypt(key, iv, data) ==
    LET ct == [i \in 1..Len(data) |-> Xor(data[i], KeyStream(key, iv, i))]
    IN  [iv |-> iv, ct |-> ct, tag |-> HMAC(key, iv, ct)]

\* Fernet(key).decrypt(token): InvalidToken unless the tag verifies under key
fernet_decrypt(key, token) ==
    IF token.tag # HMAC(key, token.iv, token.ct)
    THEN [ok |-> FALSE, data |-> <<>>]
    ELSE [ok |-> TRUE,
          data |-> [i \in 1..Len(token.ct) |->
                        Xor(token.ct[i], KeyStream(key, token.iv, i))]]

\* ------------------------------------------------------- model_encryption.py
\* _ensure_key_exists that writes a fresh key whether or not the file exists
ensure_key_exists_Regenerate(kf, gen) == [keyFile |-> gen, printed |-> TRUE]

\* ModelEncryption._ensure_key_exists: the key file after the call, and whether
\* the "Generated new encryption key" line was printed on stdout
ensure_key_exists(kf, gen) ==
    IF kf = NoFile THEN [keyFile |-> gen, printed |-> TRUE]
                   ELSE [keyFile |-> kf, printed |-> FALSE]

\* ModelEncryption.__init__: ensure, load the key, build the cipher
ModelEncryption(kf, gen) ==
    LET e == ensure_key_exists(kf, gen)
    IN  [keyFile |-> e.keyFile, printed |-> e.printed,
         key |-> e.keyFile, ok |-> e.keyFile \in Keys]

NoToken == [iv |-> 0, ct |-> <<>>, tag |-> 0]
NoMetadata == [original_size |-> 0, hash |-> 0, version |-> None]

\* the file at MODEL_PATH: absent, not a loadable package, or a package
NoArtifact == [kind |-> "absent", metadata |-> NoMetadata, data |-> NoToken]
Malformed == [kind |-> "malformed", metadata |-> NoMetadata, data |-> NoToken]

\* encrypt_model with the metadata hash taken over the ciphertext
encrypt_model_HashOfCiphertext(key, iv, model_data) ==
    [kind |-> "package",
     metadata |-> [original_size |-> Len(model_data),
                   hash |-> sha256(fernet_encrypt(key, iv, model_data).ct),
                   version |-> "1.0.0"],
     data |-> fernet_encrypt(key, iv, model_data)]

\* ModelEncryption.encrypt_model: the package written to encrypted_path
encrypt_model(key, iv, model_data) ==
    [kind |-> "package",
     metadata |-> [original_size |-> Len(model_data),
                   hash |-> sha256(model_data),
                   version |-> "1.0.0"],
     data |-> fernet_encrypt(key, iv, model_data)]

Ok(data) == [ok |-> TRUE, exc |-> None, msg |-> None, data |-> data]
Raise(exc, msg) == [ok |-> FALSE, exc |-> exc, msg |-> msg, data |-> <<>>]

\* decrypt_model without the comparison of the hashes
decrypt_model_NoIntegrity(key, package) ==
    IF package.kind # "package" THEN Raise("UnpicklingError", "malformed")
    ELSE LET d == fernet_decrypt(key, package.data)
         IN  IF ~d.ok THEN Raise("InvalidToken", "decrypt") ELSE Ok(d.data)

\* decrypt_model that takes the stored bytes as they are when the token is refused
decrypt_model_SwallowInvalidToken(key, package) ==
    IF package.kind # "package" THEN Raise("UnpicklingError", "malformed")
    ELSE LET d == fernet_decrypt(key, package.data)
             bytes == IF d.ok THEN d.data ELSE package.data.ct
         IN  IF sha256(bytes) # package.metadata.hash
             THEN Raise("ValueError", "integrity")
             ELSE Ok(bytes)

\* decrypt_model that reports every failure as the failed integrity check
decrypt_model_IntegrityForAll(key, package) ==
    IF package.kind # "package" THEN Raise("UnpicklingError", "malformed")
    ELSE LET d == fernet_decrypt(key, package.data)
         IN  IF ~d.ok \/ sha256(d.data) # package.metadata.hash
             THEN Raise("ValueError", "integrity")
             ELSE Ok(d.data)

\* ModelEncryption.decrypt_model
decrypt_model(key, package) ==
    IF package.kind # "package" THEN Raise("UnpicklingError", "malformed")
    ELSE LET d == fernet_decrypt(key, package.data)
         IN  IF ~d.ok THEN Raise("InvalidToken", "decrypt")
             ELSE IF sha256(d.data) # package.metadata.hash
                  THEN Raise("ValueError", "integrity")
                  ELSE Ok(d.data)

\* load_encrypted_model that loads the stored bytes when decrypt_model raises
load_encrypted_model_Fallback(key, package, construct) ==
    LET d == decrypt_model(key, package)
    IN  IF ~construct THEN Raise("ValueError", "checkpoint")
        ELSE IF d.ok THEN Ok(d.data) ELSE Ok(package.data.ct)

\* ---------------------------------------------------------- model_loader.py
\* SecureModelLoader.load_encrypted_model; construct says whether torch.load
\* and load_state_dict accept the decrypted bytes as a checkpoint
load_encrypted_model(key, package, construct) ==
    LET d == decrypt_model(key, package)
    IN  IF ~d.ok THEN d
        ELSE IF ~construct THEN Raise("ValueError", "checkpoint")
             ELSE Ok(d.data)

\* a buffer that is a named temporary file
buffer_files_TempFile(decrypted_data) == {decrypted_data}

\* load_encrypted_model: buffer = io.BytesIO(decrypted_data) holds the bytes in
\* memory; the files it creates
buffer_files(decrypted_data) == {}

\* the files load_model_securely creates besides the key file
loader_files(kf, art) ==
    IF art.kind = "absent" \/ kf \notin Keys THEN {}
    ELSE LET d == decrypt_model(kf, art)
         IN  IF d.ok THEN buffer_files(d.data) ELSE {}

\* load_model_securely without the check that the key file exists
load_model_securely_NoKeyCheck(kf, art, gen, construct) ==
    IF art.kind = "absent"
    THEN [res |-> Raise("FileNotFoundError", "model"), keyFile |-> kf, printed |-> FALSE]
    ELSE LET enc == ModelEncryption(kf, gen)
         IN  [res |-> IF ~enc.ok THEN Raise("ValueError", "fernet key")
                      ELSE load_encrypted_model(enc.key, art, construct),
              keyFile |-> enc.keyFile, printed |-> enc.printed]

\* ------------------------------------------------------- inference_server.py
\* load_model_securely: result, key file afterwards, stdout lines printed
load_model_securely(kf, art, gen, construct) ==
    IF art.kind = "absent"
    THEN [res |-> Raise("FileNotFoundError", "model"), keyFile |-> kf, printed |-> FALSE]
    ELSE IF kf = NoFile
    THEN [res |-> Raise("FileNotFoundError", "key"), keyFile |-> kf, printed |-> FALSE]
    ELSE LET enc == ModelEncryption(kf, gen)
         IN  [res |-> IF ~enc.ok THEN Raise("ValueError", "fernet key")
                      ELSE load_encrypted_model(enc.key, art, construct),
              keyFile |-> enc.keyFile, printed |-> enc.printed]


\* ------------------------------------------------- the inference pipeline
\* strings that are taken apart are sequences of characters
MaxNamePieces == 2
ProbUnits == 4
ConfidenceUnits == 10000

Healthy == <<"H", "e", "a", "l", "t", "h", "y">>
Pest_Fungal == <<"P", "e", "s", "t", "_", "F", "u", "n", "g", "a", "l">>
Pest_Bacterial == <<"P", "e", "s", "t", "_", "B", "a", "c", "t", "e", "r", "i", "a", "l">>
Pest_Insect == <<"P", "e", "s", "t", "_", "I", "n", "s", "e", "c", "t">>
Nutrient_Nitrogen == <<"N", "u", "t", "r", "i", "e", "n", "t", "_", "N", "i", "t", "r", "o", "g", "e", "n">>
Nutrient_Potassium == <<"N", "u", "t", "r", "i", "e", "n", "t", "_", "P", "o", "t", "a", "s", "s", "i", "u", "m">>
Water_Stress == <<"W", "a", "t", "e", "r", "_", "S", "t", "r", "e", "s", "s">>
Not_Plant == <<"N", "o", "t", "_", "P", "l", "a", "n", "t">>

\* CONFIG['classes']
classes ==
    <<Healthy, Pest_Fungal, Pest_Bacterial, Pest_Insect,
      Nutrient_Nitrogen, Nutrient_Potassium, Water_Stress, Not_Plant>>

Pest_ == <<"P", "e", "s", "t", "_">>
Nutrient_ == <<"N", "u", "t", "r", "i", "e", "n", "t", "_">>
Pest == <<"P", "e", "s", "t">>
NutrientDeficiency == <<"N", "u", "t", "r", "i", "e", "n", "t", " ", "D", "e", "f", "i", "c", "i", "e", "n", "c", "y">>
WaterStress == <<"W", "a", "t", "e", "r", " ", "S", "t", "r", "e", "s", "s">>
InvalidInput == <<"I", "n", "v", "a", "l", "i", "d", " ", "I", "n", "p", "u", "t">>

\* str.startswith
startswith(s, prefix) ==
    Len(s) >= Len(prefix) /\ SubSeq(s, 1, Len(prefix)) = prefix

\* str.replace(old, repl): every occurrence of old, left to right, without overlap
RECURSIVE replace(_, _, _)
replace(s, old, repl) ==
    IF s = <<>> THEN <<>>
    ELSE IF startswith(s, old)
         THEN repl \o replace(SubSeq(s, Len(old) + 1, Len(s)), old, repl)
         ELSE <<Head(s)>> \o replace(Tail(s), old, repl)

\* parse_class_name: (category, subtype); subtype is <<>> for None, <<text>> otherwise
parse_class_name(class_name) ==
    IF startswith(class_name, Pest_)
    THEN [category |-> Pest, subtype |-> <<replace(class_name, Pest_, <<>>)>>]
    ELSE IF startswith(class_name, Nutrient_)
    THEN [category |-> NutrientDeficiency, subtype |-> <<replace(class_name, Nutrient_, <<>>)>>]
    ELSE IF class_name = Healthy THEN [category |-> Healthy, subtype |-> <<>>]
    ELSE IF class_name = Water_Stress THEN [category |-> WaterStress, subtype |-> <<>>]
    ELSE IF class_name = Not_Plant THEN [category |-> InvalidInput, subtype |-> <<>>]
    ELSE [category |-> class_name, subtype |-> <<>>]

\* a ladder whose comparisons exclude the lower bound of each band
get_confidence_level_Strict(confidence) ==
    IF confidence > 8500 THEN "Very High"
    ELSE IF confidence > 7000 THEN "High"
    ELSE IF confidence > 5500 THEN "Moderate"
    ELSE "Low"

\* get_confidence_level; confidence in units of 1 / ConfidenceUnits
get_confidence_level(confidence) ==
    IF confidence >= 8500 THEN "Very High"
    ELSE IF confidence >= 7000 THEN "High"
    ELSE IF confidence >= 5500 THEN "Moderate"
    ELSE "Low"

\* an arg-max that keeps the last of several maximal entries
argmax_LastMax(a) ==
    CHOOSE i \in 1..Len(a) :
        /\ \A j \in 1..Len(a) : a[j] <= a[i]
        /\ \A j \in (i + 1)..Len(a) : a[j] < a[i]

\* np.argmax: a scan that replaces the best index on a strictly larger entry
RECURSIVE argmax_scan(_, _, _)
argmax_scan(a, i, best) ==
    IF i > Len(a) THEN best
    ELSE argmax_scan(a, i + 1, IF a[i] > a[best] THEN i ELSE best)

argmax(a) == argmax_scan(a, 2, 1)

\* an ascending sort that is reversed afterwards: equal entries change places
sort_reverse_Reversed(l) ==
    LET before(i) == {j \in 1..Len(l) :
                        \/ l[j].confidence > l[i].confidence
                        \/ l[j].confidence = l[i].confidence /\ j > i}
    IN  [k \in 1..Len(l) |-> l[CHOOSE i \in 1..Len(l) : Cardinality(before(i)) = k - 1]]

\* list.sort(key=confidence, reverse=True): stable, so an entry is preceded by
\* the entries of larger confidence and by the earlier entries of equal confidence
sort_reverse(l) ==
    LET preceding(i) == {j \in 1..Len(l) :
                           \/ l[j].confidence > l[i].confidence
                           \/ l[j].confidence = l[i].confidence /\ j < i}
    IN  [k \in 1..Len(l) |-> l[CHOOSE i \in 1..Len(l) : Cardinality(preceding(i)) = k - 1]]

\* generate_explanation: the explanations dictionary
explanations ==
    [class \in {Healthy, Pest_Fungal, Pest_Bacterial, Pest_Insect,
                 Nutrient_Nitrogen, Nutrient_Potassium, Water_Stress, Not_Plant} |->
       CASE class = Healthy ->
            "Plant appears healthy with no visible issues detected."
         [] class = Pest_Fungal ->
            "Fungal infection detected. Look for powdery spots, mold, or discoloration. Treatment: Apply fungicide and improve air circulation."
         [] class = Pest_Bacterial ->
            "Bacterial infection detected. Water-soaked lesions or wilting observed. Treatment: Use copper-based bactericide and remove infected parts."
         [] class = Pest_Insect ->
            "Insect damage detected. Holes, chewed edges, or insect presence. Treatment: Apply appropriate insecticide or use neem oil."
         [] class = Nutrient_Nitrogen ->
            "Nitrogen deficiency detected. Yellowing of older leaves, stunted growth. Treatment: Apply nitrogen-rich fertilizer."
         [] class = Nutrient_Potassium ->
            "Potassium deficiency detected. Leaf edge browning, weak stems. Treatment: Apply potassium fertilizer."
         [] class = Water_Stress ->
            "Water stress detected. Wilting or dry soil conditions. Treatment: Adjust watering schedule."
         [] class = Not_Plant ->
            "This is not a plant image. Please upload a clear image of a plant leaf for disease detection."]

\* get_recommendations: the recommendations dictionary
recommendations ==
    [class \in {Healthy, Pest_Fungal, Pest_Bacterial, Pest_Insect,
                 Nutrient_Nitrogen, Nutrient_Potassium, Water_Stress, Not_Plant} |->
       CASE class = Healthy ->
            <<"Continue current care routine",
              "Monitor for any changes",
              "Maintain proper watering and sunlight">>
         [] class = Pest_Fungal ->
            <<"Apply fungicide (copper-based or organic)",
              "Improve air circulation around plant",
              "Remove affected leaves",
              "Reduce humidity if possible">>
         [] class = Pest_Bacterial ->
            <<"Use copper-based bactericide",
              "Remove and destroy infected parts",
              "Avoid overhead watering",
              "Sterilize tools between plants">>
         [] class = Pest_Insect ->
            <<"Identify specific insect pest",
              "Apply appropriate insecticide",
              "Use neem oil for organic treatment",
              "Introduce beneficial insects">>
         [] class = Nutrient_Nitrogen ->
            <<"Apply nitrogen-rich fertilizer",
              "Use compost or manure",
              "Consider foliar feeding",
              "Test soil pH">>
         [] class = Nutrient_Potassium ->
            <<"Apply potassium fertilizer",
              "Use wood ash or kelp meal",
              "Avoid over-fertilization with nitrogen",
              "Monitor leaf symptoms">>
         [] class = Water_Stress ->
            <<"Adjust watering schedule",
              "Check soil moisture regularly",
              "Improve drainage if waterlogged",
              "Mulch to retain moisture">>
         [] class = Not_Plant ->
            <<"Please upload a clear image of a plant leaf for disease detection.">>]

\* dict.get(key, default)
get(dict, key, default) == IF key \in DOMAIN dict THEN dict[key] ELSE default

\* an explanation whose advisory sentence is appended below High
generate_explanation_BelowHigh(predicted_class, confidence, conf_level) ==
    [text |-> get(explanations, predicted_class, "Plant classified as {predicted_class}."),
     predicted_class |-> IF predicted_class \in DOMAIN explanations THEN <<>>
                         ELSE <<predicted_class>>,
     conf_level |-> conf_level,
     confidence |-> confidence,
     advisory |-> IF conf_level \in {"Low", "Moderate"}
                  THEN " Manual inspection recommended for confirmation." ELSE ""]

\* generate_explanation: the text is the dictionary entry or the fallback with
\* the class put in, then the sentence with the level and the percentage, then
\* the advisory sentence
generate_explanation(predicted_class, confidence, conf_level) ==
    [text |-> get(explanations, predicted_class, "Plant classified as {predicted_class}."),
     predicted_class |-> IF predicted_class \in DOMAIN explanations THEN <<>>
                         ELSE <<predicted_class>>,
     conf_level |-> conf_level,
     confidence |-> confidence,
     advisory |-> IF conf_level = "Low"
                  THEN " Manual inspection recommended for confirmation." ELSE ""]

\* get_recommendations
get_recommendations(predicted_class) ==
    get(recommendations, predicted_class, <<"Consult agricultural expert">>)

\* predict, from the probabilities of the forward pass (units of 1 / ProbUnits)
predict(probabilities) ==
    LET predicted_idx == argmax(probabilities)
        predicted_class == classes[predicted_idx]
        confidence == probabilities[predicted_idx]
        parsed == parse_class_name(predicted_class)
        all_probs == [i \in 1..Len(classes) |->
                        [class |-> classes[i],
                         confidence |-> probabilities[i],
                         confidence_percentage |-> probabilities[i] * 100]]
    IN  [predicted_class |-> predicted_class,
         category |-> parsed.category,
         subtype |-> parsed.subtype,
         confidence |-> confidence,
         confidence_percentage |-> confidence * 100,
         confidence_level |->
             get_confidence_level((confidence * ConfidenceUnits) \div ProbUnits),
         all_probabilities |-> sort_reverse(all_probs),
         explanation |->
             generate_explanation(predicted_class, confidence,
                 get_confidence_level((confidence * ConfidenceUnits) \div ProbUnits)),
         recommendations |-> get_recommendations(predicted_class)]

\* _model(img) under torch.no_grad() with the model in eval mode: a function of
\* the weights and of the image; this one puts all the mass on one class
forward(weights, image) ==
    LET top == 1 + ((BitsVal(weights) + (IF image = "leaf.jpg" THEN 1 ELSE 0)) % Len(classes))
    IN  [i \in 1..Len(classes) |-> IF i = top THEN ProbUnits ELSE 0]


\* inference.py, generate_explanation: the explanations dictionary
inference_explanations ==
    [class \in {Healthy, Pest_Fungal, Pest_Bacterial, Pest_Insect,
                 Nutrient_Nitrogen, Nutrient_Potassium, Water_Stress, Not_Plant} |->
       CASE class = Healthy ->
            "Plant appears healthy. No visible issues detected."
         [] class = Pest_Fungal ->
            "Fungal infection detected. Look for powdery spots, mold, or discoloration. Treatment: fungicide."
         [] class = Pest_Bacterial ->
            "Bacterial infection detected. Water-soaked lesions or wilting. Treatment: copper-based spray."
         [] class = Pest_Insect ->
            "Insect damage detected. Holes, chewed edges, or insect presence. Treatment: insecticide or natural predators."
         [] class = Nutrient_Nitrogen ->
            "Nitrogen deficiency detected. Yellowing of older leaves, stunted growth. Treatment: nitrogen fertilizer."
         [] class = Nutrient_Potassium ->
            "Potassium deficiency detected. Leaf edge browning, weak stems. Treatment: potassium fertilizer."
         [] class = Water_Stress ->
            "Water stress detected. Wilting or dry soil. Treatment: adjust watering schedule."
         [] class = Not_Plant ->
            "This is not a plant image. Please upload a clear image of a plant leaf for disease detection."]

\* inference.py, predict: the same statements as the server's predict, with the
\* explanations of inference.py and without recommendations
inference_predict(probabilities) ==
    LET r == predict(probabilities)
    IN  [predicted_class |-> r.predicted_class,
         category |-> r.category,
         subtype |-> r.subtype,
         confidence |-> r.confidence,
         confidence_percentage |-> r.confidence_percentage,
         confidence_level |-> r.confidence_level,
         all_probabilities |-> r.all_probabilities,
         explanation |->
             [r.explanation EXCEPT !.text =
                 get(inference_explanations, r.predicted_class,
                     "Plant classified as {predicted_class}.")]]

\* ------------------------------------------------------------------ state
VARIABLES
    keyFile,      \* content of the file at MODEL_KEY_PATH: NoFile, BadKey or a key
    artifact,     \* content of the file at MODEL_PATH
    produced,     \* history: the last package written by encrypt_model, its key and plaintext
    tampers,      \* history: bit flips applied since the artifact last was the produced package
    pc,           \* position of the worker process
    model,        \* global _model
    transform,    \* global _transform is set
    stdin,        \* history: the request lines read so far
    line,         \* loop variable of run_server
    exc,          \* exception being handled at the request boundary
    out,          \* lines written to sys.stdout
    flushed,      \* number of lines of out delivered to the protocol channel
    err,          \* lines written to sys.stderr
    signalled,    \* signal_handler has run
    loadResult,   \* history: outcome of load_model_securely
    exitCode,     \* exit status of the process, -1 while it runs
    tmpFiles,     \* byte strings the worker wrote to files other than the key file
    call,         \* a call of a function of the inference pipeline: input and result
    trace         \* history: the calls of preprocess_image and of the forward pass

vars == <<keyFile, artifact, produced, tampers, pc, model, transform, stdin, line,
          exc, out, flushed, err, signalled, loadResult, exitCode, tmpFiles, call,
          trace>>

fsVars == <<keyFile, artifact, produced, tampers, tmpFiles>>
reqVars == <<stdin, line, exc, trace>>
procVars == <<model, transform, signalled, loadResult, exitCode>>

NoModel == [loaded |-> FALSE, plain |-> <<>>]
NoProduced == [valid |-> FALSE, package |-> NoArtifact, key |-> NoFile, plain |-> <<>>]
NoLine == [json |-> None, imagePath |-> None]
NoCall == [fn |-> None]

\* request lines: not JSON, JSON that is no object, an object whose imagePath is
\* missing (or null), empty, or names a file
Paths == {"absent.jpg", "garbage.jpg", "leaf.jpg"}
Lines == {[json |-> "invalid", imagePath |-> None], [json |-> "array", imagePath |-> None]}
         \cup {[json |-> "object", imagePath |-> p] : p \in {None, ""} \cup Paths}

\* os.path.exists(image_path) and cv2.imread(image_path) is not None
path_exists(path) == path \in {"garbage.jpg", "leaf.jpg"}
imread_ok(path) == path = "leaf.jpg"

\* lines of the protocol channel
\* (data is <<>> or <<result>>; req, the request a response answers, is history)
ReadyLine ==
    [type |-> "READY", success |-> FALSE, data |-> <<>>, error |-> None,
     error_type |-> None, req |-> 0]
TextLine ==
    [type |-> "text", success |-> FALSE, data |-> <<>>, error |-> None,
     error_type |-> None, req |-> 0]
SuccessLine(k, result) ==
    [type |-> "json", success |-> TRUE, data |-> <<result>>, error |-> None,
     error_type |-> None, req |-> k]
FailureLine(k, e, msg) ==
    [type |-> "json", success |-> FALSE, data |-> <<>>, error |-> msg,
     error_type |-> e, req |-> k]

\* str(e) of the exception raised while the request line l was processed
str(e, l) ==
    CASE e = "JSONDecodeError" -> "Expecting value"
      [] e = "AttributeError" -> "object has no attribute 'get'"
      [] e = "FileNotFoundError" -> "Image not found"
      [] e = "ValueError" -> IF l.imagePath \in {None, ""} THEN "No imagePath provided"
                             ELSE "Cannot read image"
      [] OTHER -> "forward pass failed"

\* result = predict(image_path) for a model with the given weights: preprocess,
\* forward pass and the derived fields, tabulated over the weights and the paths
Inferences ==
    {[weights |-> weights, image_path |-> image_path,
      result |-> predict(forward(weights, image_path))] :
         weights \in Plaintexts, image_path \in Paths}

Inference(weights, image_path) ==
    (CHOOSE i \in Inferences : i.weights = weights /\ i.image_path = image_path).result

\* an entry of the history of calls; data is <<>> or <<result of predict>>
Called(fn, k, data) == [fn |-> fn, req |-> k, data |-> data]

\* lines of the diagnostic channel
Diag(what, k) == [what |-> what, req |-> k]

Init ==
    /\ keyFile \in Keys \cup {NoFile}
    /\ artifact = NoArtifact
    /\ produced = NoProduced
    /\ tampers = 0
    /\ pc = "offline"
    /\ model = NoModel
    /\ transform = FALSE
    /\ stdin = <<>>
    /\ line = NoLine
    /\ exc = None
    /\ out = <<>>
    /\ flushed = 0
    /\ err = <<>>
    /\ signalled = FALSE
    /\ loadResult = "none"
    /\ exitCode = -1
    /\ tmpFiles = {}
    /\ call = NoCall
    /\ trace = <<>>

\* --------------------------------------------- before the worker is started
\* encrypt_existing_model: the offline tool; it creates the key when absent
EncryptExisting ==
    /\ pc = "offline"
    /\ \E gen \in Keys, iv \in IVs, p \in Plaintexts :
         LET enc == ModelEncryption(keyFile, gen)
         IN  /\ enc.ok
             /\ keyFile' = enc.keyFile
             /\ artifact' = encrypt_model(enc.key, iv, p)
             /\ produced' = [valid |-> TRUE, package |-> encrypt_model(enc.key, iv, p),
                             key |-> enc.key, plain |-> p]
             /\ tampers' = 0
    /\ UNCHANGED <<pc, reqVars, procVars, out, flushed, err, tmpFiles, call>>

\* single-bit changes of the stored package
FlipCiphertext(pkg, i) ==
    [pkg EXCEPT !.data.ct[i] = Xor(pkg.data.ct[i], 1)]
FlipIV(pkg) == [pkg EXCEPT !.data.iv = Xor(pkg.data.iv, 1)]
FlipTag(pkg, j) == [pkg EXCEPT !.data.tag = FlipBit(pkg.data.tag, j)]
FlipHash(pkg, j) == [pkg EXCEPT !.metadata.hash = FlipBit(pkg.metadata.hash, j)]

SingleFlips(pkg) ==
    {FlipCiphertext(pkg, i) : i \in 1..Len(pkg.data.ct)}
    \cup {FlipIV(pkg)}
    \cup {FlipTag(pkg, j) : j \in 0..(TagBits - 1)}
    \cup {FlipHash(pkg, j) : j \in 0..(HashBits - 1)}

Tamper ==
    /\ pc = "offline"
    /\ artifact.kind = "package"
    /\ tampers < MaxTamper
    /\ artifact' \in SingleFlips(artifact)
    /\ tampers' = IF artifact' = produced.package THEN 0 ELSE tampers + 1
    /\ UNCHANGED <<keyFile, produced, pc, reqVars, procVars, out, flushed, err, tmpFiles, call>>

\* the metadata of the stored package is edited: another format version, or
\* another original_size
AlterMetadata ==
    /\ pc = "offline"
    /\ artifact.kind = "package"
    /\ tampers < MaxTamper
    /\ artifact' \in {[artifact EXCEPT !.metadata.version = "9.9.9"],
                      [artifact EXCEPT !.metadata.original_size = @ + 1]}
    /\ tampers' = tampers + 1
    /\ UNCHANGED <<keyFile, produced, pc, reqVars, procVars, out, flushed, err, tmpFiles, call>>

\* the artifact is removed, or replaced by a file that is no package
ReplaceArtifact ==
    /\ pc = "offline"
    /\ artifact.kind = "package"
    /\ artifact' \in {NoArtifact, Malformed}
    /\ UNCHANGED <<keyFile, produced, tampers, pc, reqVars, procVars, out, flushed, err, tmpFiles, call>>

\* the key file is removed, or replaced by another key or by bytes that are no key
ReplaceKey ==
    /\ pc = "offline"
    /\ produced.valid
    /\ keyFile' \in (Keys \cup {NoFile, BadKey}) \ {keyFile}
    /\ UNCHANGED <<artifact, produced, tampers, pc, reqVars, procVars, out, flushed, err, tmpFiles, call>>


\* ------------------------------------------------------- the worker process
\* main with --server-mode: install the handlers, enter run_server
main ==
    /\ pc = "offline"
    /\ pc' = "starting"
    /\ err' = Append(err, Diag("initializing", 0))
    /\ UNCHANGED <<fsVars, reqVars, procVars, out, flushed, call>>

\* run_server: _model = load_model_securely(); _transform = get_transform().
\* An exception leaves run_server and main: traceback on stderr, exit status 1.
LoadModel ==
    /\ pc = "starting"
    /\ \E gen \in Keys, construct \in BOOLEAN :
         LET r == load_model_securely(keyFile, artifact, gen, construct)
             printed == IF r.printed THEN <<TextLine>> ELSE <<>>
         IN  /\ keyFile' = r.keyFile
             /\ out' = out \o printed
             /\ IF r.res.ok
                THEN /\ model' = [loaded |-> TRUE, plain |-> r.res.data]
                     /\ transform' = TRUE
                     /\ loadResult' = "ok"
                     /\ err' = err \o <<Diag("loading", 0), Diag("loaded", 0)>>
                     /\ pc' = "loaded"
                     /\ UNCHANGED <<flushed, exitCode>>
                ELSE /\ loadResult' = r.res.msg
                     /\ err' = err \o <<Diag("loading", 0), Diag("traceback", 0)>>
                     /\ pc' = "exited"
                     /\ exitCode' = 1
                     /\ flushed' = Len(out')
                     /\ UNCHANGED <<model, transform>>
    /\ tmpFiles' = tmpFiles \cup loader_files(keyFile, artifact)
    /\ UNCHANGED <<artifact, produced, tampers, reqVars, signalled, call>>

\* sys.stdout.write("READY\n")
WriteReady ==
    /\ pc = "loaded"
    /\ out' = Append(out, ReadyLine)
    /\ pc' = "ready_written"
    /\ UNCHANGED <<fsVars, reqVars, procVars, flushed, err, call>>

\* run_server without the flush after READY
FlushReadyMissing ==
    /\ pc = "ready_written"
    /\ pc' = "ready_flushed"
    /\ UNCHANGED <<fsVars, reqVars, procVars, out, flushed, err, call>>

\* sys.stdout.flush()
FlushReady ==
    /\ pc = "ready_written"
    /\ flushed' = Len(out)
    /\ pc' = "ready_flushed"
    /\ UNCHANGED <<fsVars, reqVars, procVars, out, err, call>>

\* sys.stderr.write("Worker: Ready to process requests")
LogReady ==
    /\ pc = "ready_flushed"
    /\ err' = Append(err, Diag("ready", 0))
    /\ pc' = "idle"
    /\ UNCHANGED <<fsVars, reqVars, procVars, out, flushed, call>>

\* for line in sys.stdin: the next line arrives (at most limit lines are sent)
ReadLine(limit) ==
    /\ pc = "idle"
    /\ Len(stdin) < limit
    /\ \E l \in Lines :
         /\ stdin' = Append(stdin, l)
         /\ line' = l
    /\ pc' = "parse"
    /\ UNCHANGED <<fsVars, procVars, exc, out, flushed, err, call, trace>>

\* end of input treated as an error: a Failure line and exit status 1
EndOfInputAsError ==
    /\ pc = "idle"
    /\ pc' = "exited"
    /\ exitCode' = 1
    /\ out' = Append(out, FailureLine(Len(stdin) + 1, "EOFError", "end of input"))
    /\ flushed' = Len(out')
    /\ UNCHANGED <<fsVars, reqVars, model, transform, signalled, loadResult, err, call>>

\* for line in sys.stdin: end of input; run_server and main return
EndOfInput ==
    /\ pc = "idle"
    /\ pc' = "exited"
    /\ exitCode' = 0
    /\ flushed' = Len(out)
    /\ UNCHANGED <<fsVars, reqVars, model, transform, signalled, loadResult, out, err, call>>

\* run_server whose handler catches ValueError only: the AttributeError of a
\* request that is no object leaves run_server
ParseRequestUncaught ==
    /\ pc = "parse"
    /\ IF line.json = "invalid"
       THEN exc' = "JSONDecodeError" /\ pc' = "except" /\ UNCHANGED <<exitCode, flushed>>
       ELSE IF line.json # "object"
            THEN exc' = "AttributeError" /\ pc' = "exited" /\ exitCode' = 1
                 /\ flushed' = Len(out)
            ELSE exc' = exc /\ pc' = "check" /\ UNCHANGED <<exitCode, flushed>>
    /\ UNCHANGED <<fsVars, model, transform, signalled, loadResult, stdin, line, out, err, call, trace>>

\* request = json.loads(line.strip()); image_path = request.get('imagePath')
ParseRequest ==
    /\ pc = "parse"
    /\ IF line.json = "invalid" THEN exc' = "JSONDecodeError" /\ pc' = "except"
       ELSE IF line.json # "object" THEN exc' = "AttributeError" /\ pc' = "except"
       ELSE exc' = exc /\ pc' = "check"
    /\ UNCHANGED <<fsVars, procVars, stdin, line, out, flushed, err, call, trace>>

\* a request check without the test that the file exists
CheckPathNoExists ==
    /\ pc = "check"
    /\ IF line.imagePath \in {None, ""} THEN exc' = "ValueError" /\ pc' = "except"
       ELSE exc' = exc /\ pc' = "preprocess"
    /\ UNCHANGED <<fsVars, procVars, stdin, line, out, flushed, err, call, trace>>

\* if not image_path: raise ValueError; if not os.path.exists: raise FileNotFoundError
CheckPath ==
    /\ pc = "check"
    /\ IF line.imagePath \in {None, ""} THEN exc' = "ValueError" /\ pc' = "except"
       ELSE IF ~path_exists(line.imagePath)
            THEN exc' = "FileNotFoundError" /\ pc' = "except"
            ELSE exc' = exc /\ pc' = "preprocess"
    /\ UNCHANGED <<fsVars, procVars, stdin, line, out, flushed, err, call, trace>>

\* predict: img = preprocess_image(image_path)
Preprocess ==
    /\ pc = "preprocess"
    /\ IF ~imread_ok(line.imagePath) THEN exc' = "ValueError" /\ pc' = "except"
       ELSE exc' = exc /\ pc' = "infer"
    /\ trace' = Append(trace, Called("preprocess_image", Len(stdin), <<>>))
    /\ UNCHANGED <<fsVars, procVars, stdin, line, out, flushed, err, call>>

\* predict that loads the model again before the forward pass
InferReload ==
    /\ pc = "infer"
    /\ err' = err \o <<Diag("loading", Len(stdin)), Diag("loaded", Len(stdin))>>
    /\ \E raised \in BOOLEAN :
         IF raised
         THEN /\ exc' = "RuntimeError" /\ pc' = "except"
              /\ trace' = Append(trace, Called("forward", Len(stdin), <<>>))
         ELSE /\ exc' = exc /\ pc' = "respond"
              /\ trace' = Append(trace, Called("forward", Len(stdin),
                                  <<Inference(model.plain, line.imagePath)>>))
    /\ UNCHANGED <<fsVars, procVars, stdin, line, out, flushed, call>>

\* a forward pass of a model left in training mode: it updates the weights'
\* running statistics
InferTrainMode ==
    /\ pc = "infer"
    /\ model' = [model EXCEPT !.plain = [i \in 1..Len(model.plain) |-> 1 - model.plain[i]]]
    /\ \E raised \in BOOLEAN :
         IF raised
         THEN /\ exc' = "RuntimeError" /\ pc' = "except"
              /\ trace' = Append(trace, Called("forward", Len(stdin), <<>>))
         ELSE /\ exc' = exc /\ pc' = "respond"
              /\ trace' = Append(trace, Called("forward", Len(stdin),
                                  <<Inference(model.plain, line.imagePath)>>))
    /\ UNCHANGED <<fsVars, transform, signalled, loadResult, exitCode, stdin, line, out,
                   flushed, err, call>>

\* predict: outputs = _model(img) and the derived fields; the forward pass may raise
Infer ==
    /\ pc = "infer"
    /\ \E raised \in BOOLEAN :
         IF raised
         THEN /\ exc' = "RuntimeError" /\ pc' = "except"
              /\ trace' = Append(trace, Called("forward", Len(stdin), <<>>))
         ELSE /\ exc' = exc /\ pc' = "respond"
              /\ trace' = Append(trace, Called("forward", Len(stdin),
                                  <<Inference(model.plain, line.imagePath)>>))
    /\ UNCHANGED <<fsVars, procVars, stdin, line, out, flushed, err, call>>

\* sys.stdout.write(json.dumps(response) + "\n")
WriteResponse ==
    /\ pc = "respond"
    /\ out' = Append(out, SuccessLine(Len(stdin), trace[Len(trace)].data[1]))
    /\ pc' = "flush_response"
    /\ UNCHANGED <<fsVars, reqVars, procVars, flushed, err, call>>

\* sys.stdout.flush()
FlushResponse ==
    /\ pc = "flush_response"
    /\ flushed' = Len(out)
    /\ pc' = "log_response"
    /\ UNCHANGED <<fsVars, reqVars, procVars, out, err, call>>

\* sys.stderr.write("Prediction complete for ..."); back to the for statement
LogPrediction ==
    /\ pc = "log_response"
    /\ err' = Append(err, Diag("prediction complete", Len(stdin)))
    /\ pc' = "idle"
    /\ line' = NoLine
    /\ UNCHANGED <<fsVars, procVars, stdin, exc, out, flushed, call, trace>>

\* an except clause that prints the error instead of writing it to stderr
LogErrorPrinted ==
    /\ pc = "except"
    /\ out' = Append(out, TextLine)
    /\ pc' = "respond_error"
    /\ UNCHANGED <<fsVars, reqVars, procVars, flushed, err, call>>

\* except Exception: the error and the traceback go to stderr
LogError ==
    /\ pc = "except"
    /\ err' = err \o <<Diag("error", Len(stdin)), Diag("traceback", Len(stdin))>>
    /\ pc' = "respond_error"
    /\ UNCHANGED <<fsVars, reqVars, procVars, out, flushed, call>>

\* an error response that carries the loader's key
WriteErrorWithKey ==
    /\ pc = "respond_error"
    /\ out' = Append(out, FailureLine(Len(stdin), keyFile, str(exc, line)))
    /\ pc' = "flush_error"
    /\ UNCHANGED <<fsVars, reqVars, procVars, flushed, err, call>>

\* an except clause that logs the error and writes no response
WriteErrorDropped ==
    /\ pc = "respond_error"
    /\ pc' = "flush_error"
    /\ UNCHANGED <<fsVars, reqVars, procVars, out, flushed, err, call>>

\* sys.stdout.write(json.dumps(error_response) + "\n")
WriteError ==
    /\ pc = "respond_error"
    /\ out' = Append(out, FailureLine(Len(stdin), exc, str(exc, line)))
    /\ pc' = "flush_error"
    /\ UNCHANGED <<fsVars, reqVars, procVars, flushed, err, call>>

\* an except clause without the flush after the error response
FlushErrorMissing ==
    /\ pc = "flush_error"
    /\ pc' = "idle"
    /\ line' = NoLine
    /\ exc' = None
    /\ UNCHANGED <<fsVars, procVars, stdin, out, flushed, err, call, trace>>

\* sys.stdout.flush(); back to the for statement
FlushError ==
    /\ pc = "flush_error"
    /\ flushed' = Len(out)
    /\ pc' = "idle"
    /\ line' = NoLine
    /\ exc' = None
    /\ UNCHANGED <<fsVars, procVars, stdin, out, err, call, trace>>

Running == pc \notin {"offline", "unwinding", "exited"}

\* signal_handler that logs the signal and returns
signal_handler_NoExit ==
    /\ pc \notin {"offline", "unwinding", "exited"}
    /\ ~signalled
    /\ err' = Append(err, Diag("shutdown signal", 0))
    /\ signalled' = TRUE
    /\ UNCHANGED <<fsVars, reqVars, model, transform, loadResult, exitCode, out, flushed, pc, call>>

\* handlers installed only after the loader has run: during startup the signal
\* has its default disposition and kills the process (status 128 + SIGTERM)
signal_handler_InstalledAfterLoad ==
    /\ Running
    /\ signalled' = TRUE
    /\ IF pc = "starting"
       THEN /\ pc' = "exited"
            /\ exitCode' = 143
            /\ err' = err
       ELSE /\ pc' = "unwinding"
            /\ exitCode' = exitCode
            /\ err' = Append(err, Diag("shutdown signal", 0))
    /\ UNCHANGED <<fsVars, reqVars, model, transform, loadResult, out, flushed, call>>

\* signal_handler: runs between two bytecodes of the main thread, wherever the
\* worker is, and raises SystemExit(0) there
signal_handler ==
    /\ Running
    /\ err' = Append(err, Diag("shutdown signal", 0))
    /\ signalled' = TRUE
    /\ pc' = "unwinding"
    /\ UNCHANGED <<fsVars, reqVars, model, transform, loadResult, exitCode, out, flushed, call>>

\* SystemExit is no Exception: it leaves the try statement, run_server and main;
\* the interpreter flushes stdout and exits with the status given to sys.exit
SystemExit ==
    /\ pc = "unwinding"
    /\ pc' = "exited"
    /\ exitCode' = 0
    /\ flushed' = Len(out)
    /\ UNCHANGED <<fsVars, reqVars, model, transform, signalled, loadResult, out, err, call>>

\* the artifact and the key file change only while no worker runs
Offline == EncryptExisting \/ Tamper \/ AlterMetadata \/ ReplaceArtifact \/ ReplaceKey

Worker(limit) ==
    \/ main \/ LoadModel \/ WriteReady \/ FlushReady \/ LogReady
    \/ ReadLine(limit) \/ EndOfInput \/ ParseRequest \/ CheckPath \/ Preprocess \/ Infer
    \/ WriteResponse \/ FlushResponse \/ LogPrediction
    \/ LogError \/ WriteError \/ FlushError
    \/ signal_handler \/ SystemExit

\* the artifact pipeline: any deployment, then a worker on it that is sent a
\* few request lines
Next == Offline \/ Worker(PipelineRequests)

Spec == Init /\ [][Next]_vars

\* the worker protocol: a worker started on a deployment as encrypt_existing_model
\* leaves it (key file and package of one model file), sent up to MaxRequests lines
InitDeployed ==
    /\ keyFile \in Keys
    /\ artifact = encrypt_model(keyFile, 0, <<1>>)
    /\ produced = [valid |-> TRUE, package |-> artifact, key |-> keyFile, plain |-> <<1>>]
    /\ tampers = 0
    /\ pc = "offline"
    /\ model = NoModel
    /\ transform = FALSE
    /\ stdin = <<>>
    /\ line = NoLine
    /\ exc = None
    /\ out = <<>>
    /\ flushed = 0
    /\ err = <<>>
    /\ signalled = FALSE
    /\ loadResult = "none"
    /\ exitCode = -1
    /\ tmpFiles = {}
    /\ call = NoCall
    /\ trace = <<>>

NextWorker == Worker(MaxRequests)

SpecWorker == InitDeployed /\ [][NextWorker]_vars

\* the statements of one iteration of the request loop: the interpreter goes on
\* to the next statement, and the calls to preprocess and to the model return
RequestStep ==
    \/ ParseRequest \/ CheckPath \/ Preprocess \/ Infer
    \/ WriteResponse \/ FlushResponse \/ LogPrediction
    \/ LogError \/ WriteError \/ FlushError

SpecLive == SpecWorker /\ WF_vars(RequestStep)


\* ------------------------------------------- inference.py: the cached model
MaxCalls == 3

\* initialize_model without the test of the cached model
initialize_model_NoGuard(m, t, file, construct) ==
    IF ~file.valid
    THEN [model |-> m, transform |-> t, calls |-> <<"os.path.exists">>]
    ELSE IF ~construct
    THEN [model |-> m, transform |-> t, calls |-> <<"os.path.exists", "load_model">>]
    ELSE [model |-> [loaded |-> TRUE, plain |-> file.plain], transform |-> TRUE,
          calls |-> <<"os.path.exists", "load_model">>]

\* initialize_model: the globals _model and _transform afterwards and the calls
\* it made; file is the model file that encrypt_existing_model reads (not valid:
\* neither MODEL_PATH nor an alternative path exists); construct says whether
\* load_model accepts it as a checkpoint
initialize_model(m, t, file, construct) ==
    IF m.loaded
    THEN [model |-> m, transform |-> t, calls |-> <<>>]
    ELSE IF ~file.valid
    THEN [model |-> m, transform |-> t, calls |-> <<"os.path.exists">>]
    ELSE IF ~construct
    THEN [model |-> m, transform |-> t, calls |-> <<"os.path.exists", "load_model">>]
    ELSE [model |-> [loaded |-> TRUE, plain |-> file.plain], transform |-> TRUE,
          calls |-> <<"os.path.exists", "load_model">>]

\* the calls made so far of the function under study
NumCalls == Cardinality({i \in 1..Len(trace) : trace[i].fn = call.fn})

\* inference.py: a call of initialize_model (predict makes one per call)
InitializeModel ==
    /\ call.fn = "initialize_model"
    /\ NumCalls < MaxCalls
    /\ \E construct \in BOOLEAN :
         LET r == initialize_model(model, transform, produced, construct)
         IN  /\ model' = r.model
             /\ transform' = r.transform
             /\ trace' = Append(trace, Called("initialize_model", 0, <<>>))
                            \o [i \in 1..Len(r.calls) |-> Called(r.calls[i], 0, <<>>)]
    /\ pc' = "calls"
    /\ UNCHANGED <<fsVars, stdin, line, exc, out, flushed, err, signalled, loadResult,
                   exitCode, call>>

\* inference_server.py: _model = load_model_securely(), called again
CallLoadModelSecurely ==
    /\ call.fn = "load_model_securely"
    /\ NumCalls < MaxCalls
    /\ \E gen \in Keys, construct \in BOOLEAN :
         LET r == load_model_securely(keyFile, artifact, gen, construct)
         IN  /\ keyFile' = r.keyFile
             /\ out' = out \o (IF r.printed THEN <<TextLine>> ELSE <<>>)
             /\ model' = IF r.res.ok THEN [loaded |-> TRUE, plain |-> r.res.data] ELSE model
             /\ loadResult' = IF r.res.ok THEN "ok" ELSE r.res.msg
             /\ err' = err \o <<Diag("loading", 0),
                                 Diag(IF r.res.ok THEN "loaded" ELSE "traceback", 0)>>
    /\ trace' = Append(trace, Called("load_model_securely", 0, <<>>))
    /\ tmpFiles' = tmpFiles \cup loader_files(keyFile, artifact)
    /\ pc' = "calls"
    /\ UNCHANGED <<artifact, produced, tampers, transform, stdin, line, exc, flushed,
                   signalled, exitCode, call>>

InitCalls ==
    /\ call \in {[fn |-> "initialize_model"], [fn |-> "load_model_securely"]}
    /\ keyFile \in Keys \cup {NoFile}
    /\ artifact = NoArtifact
    /\ produced = NoProduced
    /\ tampers = 0
    /\ pc = "offline"
    /\ model = NoModel
    /\ transform = FALSE
    /\ stdin = <<>>
    /\ line = NoLine
    /\ exc = None
    /\ out = <<>>
    /\ flushed = 0
    /\ err = <<>>
    /\ signalled = FALSE
    /\ loadResult = "none"
    /\ exitCode = -1
    /\ tmpFiles = {}
    /\ trace = <<>>

NextCalls == Offline \/ InitializeModel \/ CallLoadModelSecurely

SpecCalls == InitCalls /\ [][NextCalls]_vars

\* ------------------------------------------------------- single-shot mode
\* the two programs that have a single-shot main, and the command lines a run
\* is started with (sys.argv[1:]; "--server-mode" first selects server mode)
Programs == {"inference_server.py", "inference.py"}
Argvs == {<<>>} \cup {<<p>> : p \in Paths}

\* main without --server-mode; inference_server.py has installed the handlers
SingleMain ==
    /\ pc = "offline"
    /\ call' \in {[fn |-> "main", program |-> g, argv |-> a] : g \in Programs, a \in Argvs}
    /\ pc' = "single_args"
    /\ UNCHANGED <<fsVars, reqVars, procVars, out, flushed, err>>

\* if len(sys.argv) < 2: raise ValueError; image_path = sys.argv[1]
SingleCheckArgs ==
    /\ pc = "single_args"
    /\ IF call.argv = <<>>
       THEN /\ exc' = "ValueError" /\ pc' = "single_except"
            /\ line' = line
       ELSE /\ line' = [json |-> "argv", imagePath |-> call.argv[1]]
            /\ exc' = exc /\ pc' = "single_exists"
    /\ UNCHANGED <<fsVars, procVars, stdin, trace, out, flushed, err, call>>

\* if not os.path.exists(image_path): raise FileNotFoundError
SingleCheckPath ==
    /\ pc = "single_exists"
    /\ IF path_exists(line.imagePath)
       THEN exc' = exc /\ pc' = "single_load"
       ELSE exc' = "FileNotFoundError" /\ pc' = "single_except"
    /\ UNCHANGED <<fsVars, procVars, stdin, line, trace, out, flushed, err, call>>

\* inference_server.py: _model = load_model_securely(); _transform = get_transform()
\* inference.py: initialize_model(), the first statement of predict
SingleLoad ==
    /\ pc = "single_load"
    /\ \E gen \in Keys, construct \in BOOLEAN :
         IF call.program = "inference_server.py"
         THEN LET r == load_model_securely(keyFile, artifact, gen, construct)
              IN  /\ keyFile' = r.keyFile
                  /\ out' = out \o (IF r.printed THEN <<TextLine>> ELSE <<>>)
                  /\ model' = IF r.res.ok THEN [loaded |-> TRUE, plain |-> r.res.data]
                              ELSE model
                  /\ transform' = r.res.ok
                  /\ loadResult' = IF r.res.ok THEN "ok" ELSE r.res.msg
                  /\ err' = err \o <<Diag("loading", 0)>>
                                \o (IF r.res.ok THEN <<Diag("loaded", 0)>> ELSE <<>>)
                  /\ exc' = IF r.res.ok THEN exc ELSE r.res.exc
                  /\ pc' = IF r.res.ok THEN "single_preprocess" ELSE "single_except"
                  /\ tmpFiles' = tmpFiles \cup loader_files(keyFile, artifact)
         ELSE LET r == initialize_model(model, transform, produced, construct)
              IN  /\ model' = r.model
                  /\ transform' = r.transform
                  /\ loadResult' = IF r.model.loaded THEN "ok"
                                   ELSE IF produced.valid THEN "checkpoint" ELSE "model"
                  /\ exc' = IF r.model.loaded THEN exc
                            ELSE IF produced.valid THEN "ValueError"
                            ELSE "FileNotFoundError"
                  /\ pc' = IF r.model.loaded THEN "single_preprocess" ELSE "single_except"
                  /\ UNCHANGED <<keyFile, out, err, tmpFiles>>
    /\ UNCHANGED <<artifact, produced, tampers, stdin, line, trace, flushed, signalled,
                   exitCode, call>>

\* predict: img = preprocess_image(image_path)
SinglePreprocess ==
    /\ pc = "single_preprocess"
    /\ trace' = Append(trace, Called("preprocess_image", 0, <<>>))
    /\ IF imread_ok(line.imagePath)
       THEN exc' = exc /\ pc' = "single_infer"
       ELSE exc' = "ValueError" /\ pc' = "single_except"
    /\ UNCHANGED <<fsVars, procVars, stdin, line, out, flushed, err, call>>

\* predict: the forward pass and the derived fields; the forward pass may raise
SingleInfer ==
    /\ pc = "single_infer"
    /\ \E raised \in BOOLEAN :
         IF raised
         THEN /\ exc' = "RuntimeError" /\ pc' = "single_except"
              /\ trace' = Append(trace, Called("forward", 0, <<>>))
         ELSE /\ exc' = exc /\ pc' = "single_print"
              /\ trace' = Append(trace, Called("forward", 0,
                    <<IF call.program = "inference_server.py"
                      THEN Inference(model.plain, line.imagePath)
                      ELSE inference_predict(forward(model.plain, line.imagePath))>>))
    /\ UNCHANGED <<fsVars, procVars, stdin, line, out, flushed, err, call>>

\* print(json.dumps({"success": True, "data": result})); main returns, the
\* interpreter flushes stdout and exits with status 0
SinglePrintResult ==
    /\ pc = "single_print"
    /\ out' = Append(out, SuccessLine(0, trace[Len(trace)].data[1]))
    /\ flushed' = Len(out')
    /\ pc' = "exited"
    /\ exitCode' = 0
    /\ UNCHANGED <<fsVars, reqVars, model, transform, signalled, loadResult, err, call>>

\* str(e) in the except clause of main
single_str(e) ==
    IF loadResult \notin {"none", "ok"} THEN loadResult
    ELSE IF call.argv = <<>> THEN "No image path provided"
    ELSE str(e, line)

\* an except clause that exits with status 1 and prints nothing, as the server
\* does when its loader fails
SingleExceptSilent ==
    /\ pc = "single_except"
    /\ flushed' = Len(out)
    /\ pc' = "exited"
    /\ exitCode' = 1
    /\ UNCHANGED <<fsVars, reqVars, model, transform, signalled, loadResult, out, err, call>>

\* except Exception as e: print(json.dumps({"success": False, "error": str(e),
\* "error_type": type(e).__name__})); sys.exit(1)
SingleExcept ==
    /\ pc = "single_except"
    /\ out' = Append(out, FailureLine(0, exc, single_str(exc)))
    /\ flushed' = Len(out')
    /\ pc' = "exited"
    /\ exitCode' = 1
    /\ UNCHANGED <<fsVars, reqVars, model, transform, signalled, loadResult, err, call>>

\* signal_handler is installed by inference_server.py only
SingleSignal == pc # "offline" /\ call.program = "inference_server.py" /\ signal_handler

InitSingle ==
    /\ call = NoCall
    /\ keyFile \in Keys \cup {NoFile}
    /\ artifact = NoArtifact
    /\ produced = NoProduced
    /\ tampers = 0
    /\ pc = "offline"
    /\ model = NoModel
    /\ transform = FALSE
    /\ stdin = <<>>
    /\ line = NoLine
    /\ exc = None
    /\ out = <<>>
    /\ flushed = 0
    /\ err = <<>>
    /\ signalled = FALSE
    /\ loadResult = "none"
    /\ exitCode = -1
    /\ tmpFiles = {}
    /\ trace = <<>>

NextSingle ==
    \/ Offline
    \/ SingleMain \/ SingleCheckArgs \/ SingleCheckPath \/ SingleLoad
    \/ SinglePreprocess \/ SingleInfer \/ SinglePrintResult \/ SingleExcept
    \/ SingleSignal \/ SystemExit

SpecSingle == InitSingle /\ [][NextSingle]_vars

\* ---------------------------------------- inputs of the inference pipeline
\* the inputs: class names put together from at most MaxNamePieces pieces, every
\* confidence of the scale, and every probability vector that sums to one
NamePieces ==
    {Pest_, Nutrient_, Healthy, Water_Stress, Not_Plant, Pest,
     <<"_">>, <<"F", "u", "n", "g", "a", "l">>, <<"N", "i", "t", "r", "o", "g", "e", "n">>}

RECURSIVE Concatenations(_)
Concatenations(n) ==
    IF n = 0 THEN {<<>>}
    ELSE LET shorter == Concatenations(n - 1)
         IN  shorter \cup {piece \o rest : piece \in NamePieces, rest \in shorter}

ClassNames == {classes[i] : i \in 1..Len(classes)} \cup Concatenations(MaxNamePieces)

Confidences == 0..ConfidenceUnits

RECURSIVE Distributions(_, _)
Distributions(n, total) ==
    IF n = 0 THEN (IF total = 0 THEN {<<>>} ELSE {})
    ELSE UNION {{Append(d, v) : d \in Distributions(n - 1, total - v)} : v \in 0..total}

Probabilities == Distributions(Len(classes), ProbUnits)

Levels == {"Low", "Moderate", "High", "Very High"}

ExplanationInputs ==
    {[predicted_class |-> c, confidence |-> x, conf_level |-> l] :
        c \in ClassNames, x \in {0, 5499, 5500, ConfidenceUnits}, l \in Levels}

Pending(fn, inputs) == {[fn |-> fn, input |-> x, done |-> FALSE] : x \in inputs}

InitPredict ==
    /\ call \in Pending("parse_class_name", ClassNames)
            \cup Pending("get_confidence_level", Confidences)
            \cup Pending("predict", Probabilities)
            \cup Pending("generate_explanation", ExplanationInputs)
            \cup Pending("get_recommendations", ClassNames)
    /\ keyFile = NoFile
    /\ artifact = NoArtifact
    /\ produced = NoProduced
    /\ tampers = 0
    /\ pc = "offline"
    /\ model = NoModel
    /\ transform = FALSE
    /\ stdin = <<>>
    /\ line = NoLine
    /\ exc = None
    /\ out = <<>>
    /\ flushed = 0
    /\ err = <<>>
    /\ signalled = FALSE
    /\ loadResult = "none"
    /\ exitCode = -1
    /\ tmpFiles = {}
    /\ trace = <<>>

Returned(output) == [fn |-> call.fn, input |-> call.input, done |-> TRUE, output |-> output]

CallParseClassName ==
    /\ call.fn = "parse_class_name" /\ ~call.done
    /\ call' = Returned(parse_class_name(call.input))
    /\ UNCHANGED <<fsVars, reqVars, procVars, pc, out, flushed, err>>

CallGetConfidenceLevel ==
    /\ call.fn = "get_confidence_level" /\ ~call.done
    /\ call' = Returned(get_confidence_level(call.input))
    /\ UNCHANGED <<fsVars, reqVars, procVars, pc, out, flushed, err>>

CallPredict ==
    /\ call.fn = "predict" /\ ~call.done
    /\ call' = Returned(predict(call.input))
    /\ UNCHANGED <<fsVars, reqVars, procVars, pc, out, flushed, err>>

CallGenerateExplanation ==
    /\ call.fn = "generate_explanation" /\ ~call.done
    /\ call' = Returned(generate_explanation(call.input.predicted_class,
                                               call.input.confidence, call.input.conf_level))
    /\ UNCHANGED <<fsVars, reqVars, procVars, pc, out, flushed, err>>

CallGetRecommendations ==
    /\ call.fn = "get_recommendations" /\ ~call.done
    /\ call' = Returned(get_recommendations(call.input))
    /\ UNCHANGED <<fsVars, reqVars, procVars, pc, out, flushed, err>>

NextPredict ==
    \/ CallParseClassName \/ CallGetConfidenceLevel \/ CallPredict
    \/ CallGenerateExplanation \/ CallGetRecommendations

SpecPredict == InitPredict /\ [][NextPredict]_vars


\* ------------------------------------------------------------------ claims
Responses == SubSeq(out, 2, Len(out))
Served == loadResult = "ok" /\ out # <<>>
BadLine(l) == l.json # "object" \/ l.imagePath \in {None, ""} \/ ~imread_ok(l.imagePath)

\* C1: without a termination signal the protocol channel holds, after READY,
\* one response line per request line read, the k-th for the k-th request: at
\* most the request in progress is unanswered, and none is once the loop is back
\* at the for statement or has left it.
OneResponsePerRequest ==
    (~signalled /\ Served) =>
        /\ out[1] = ReadyLine
        /\ \A k \in 1..Len(Responses) :
             /\ Responses[k].type = "json"
             /\ Responses[k].req = k
             /\ Responses[k].success => ~BadLine(stdin[k])
        /\ Len(Responses) <= Len(stdin)
        /\ Len(stdin) <= Len(Responses) + 1
        /\ pc \in {"idle", "exited"} =>
             (Len(Responses) = Len(stdin) /\ flushed = Len(out))

OneResponsePerRequestWitness ==
    /\ ~signalled /\ pc = "idle" /\ Len(stdin) = 3 /\ Len(Responses) = 3
    /\ Responses[1].success /\ ~Responses[2].success /\ Responses[3].success

\* C2: a request line that cannot be served (no JSON, no object, no imagePath,
\* no such file, no image, inference raised) is answered by a Failure response
\* carrying the exception type, and the worker never exits because of it: a
\* worker that was ready exits only with status 0.
RequestErrorsDoNotStop ==
    Served =>
        /\ \A k \in 1..Len(Responses) :
             BadLine(stdin[k]) =>
                (~Responses[k].success /\ Responses[k].error_type # None)
        /\ exc # None => pc \in {"except", "respond_error", "flush_error",
                                 "unwinding", "exited"}
        /\ pc = "exited" => exitCode = 0
        /\ (pc = "exited" /\ ~signalled) => Len(Responses) = Len(stdin)

RequestErrorsDoNotStopWitness ==
    /\ pc = "idle" /\ Len(stdin) = 3 /\ Len(Responses) = 3
    /\ stdin[2] = [json |-> "object", imagePath |-> None]
    /\ ~Responses[2].success /\ Responses[2].error_type = "ValueError"
    /\ Responses[3].success /\ Responses[3].req = 3

\* C3: READY is written at most once, as the first line of the protocol
\* channel and only with a model handle loaded; the diagnostic line about
\* readiness and the first request line come after READY was written and flushed.
ReadyOnce ==
    /\ \A i \in 1..Len(out) : out[i] = ReadyLine => i = 1
    /\ \A i \in 1..Len(out) : out[i].type = "json" => (i > 1 /\ out[1] = ReadyLine)
    /\ (out # <<>> /\ out[1] = ReadyLine) => (model.loaded /\ loadResult = "ok")
    /\ (\E i \in 1..Len(err) : err[i].what = "ready") =>
            (out # <<>> /\ out[1] = ReadyLine /\ flushed >= 1)
    /\ stdin # <<>> => (out # <<>> /\ out[1] = ReadyLine /\ flushed >= 1)

ReadyOnceWitness ==
    /\ stdin # <<>> /\ Len(out) >= 2
    /\ \E i \in 1..Len(err) : err[i].what = "ready"

\* C4: when load_model_securely fails, for whatever reason, the process has
\* exited with a non-zero status, nothing was written to the protocol channel
\* and the traceback is on the diagnostic channel.
LoaderFailure == loadResult \notin {"none", "ok"}

LoaderFailureIsSilentExit ==
    LoaderFailure =>
        /\ pc = "exited" /\ exitCode # 0
        /\ out = <<>> /\ flushed = 0
        /\ ~model.loaded /\ stdin = <<>>
        /\ err[Len(err)].what = "traceback"

LoaderFailureIsSilentExitWitness ==
    /\ loadResult = "key" /\ pc = "exited" /\ exitCode = 1
    /\ produced.valid /\ artifact = produced.package

\* C5: a model handle exists, READY was written or a request was read only if
\* the artifact's token authenticates under the key of the key file and the
\* SHA-256 of its plaintext is the metadata hash; the handle is built from that
\* plaintext.
Genuine ==
    /\ keyFile \in Keys
    /\ artifact.kind = "package"
    /\ fernet_decrypt(keyFile, artifact.data).ok
    /\ sha256(fernet_decrypt(keyFile, artifact.data).data) = artifact.metadata.hash

FailClosed ==
    (model.loaded \/ out # <<>> \/ stdin # <<>>) =>
        (Genuine /\ model.plain = fernet_decrypt(keyFile, artifact.data).data)

FailClosedWitness ==
    /\ model.loaded /\ Genuine /\ Len(out) >= 2 /\ Len(model.plain) >= 1

\* C6: a package written by encrypt_model with one bit of its token (iv,
\* ciphertext, tag) or of its metadata hash flipped is refused by decrypt_model
\* under the same key, and a worker started on it fails with the decryption or
\* the integrity error.  (produced changes only before the worker starts, so
\* the packages are examined there.)
TamperDetected ==
    produced.valid =>
        /\ pc = "offline" =>
             \A pkg \in SingleFlips(produced.package) :
                /\ ~decrypt_model(produced.key, pkg).ok
                /\ decrypt_model(produced.key, pkg).msg \in {"decrypt", "integrity"}
        /\ (loadResult # "none" /\ keyFile = produced.key
            /\ artifact # produced.package
            /\ artifact \in SingleFlips(produced.package))
              => (loadResult \in {"decrypt", "integrity"} /\ ~model.loaded /\ out = <<>>)

TamperDetectedWitness ==
    /\ produced.valid /\ keyFile = produced.key
    /\ \E j \in 0..(HashBits - 1) : artifact = FlipHash(produced.package, j)
    /\ loadResult = "integrity"

\* C7: decrypt_model under a key other than the one a package was written
\* with raises the decryption error and returns no bytes, and a worker started
\* with such a key file never loads a model.
WrongKeyRejected ==
    produced.valid =>
        /\ pc = "offline" =>
             \A k \in Keys \ {produced.key} :
                /\ ~decrypt_model(k, produced.package).ok
                /\ decrypt_model(k, produced.package).msg = "decrypt"
                /\ decrypt_model(k, produced.package).data = <<>>
        /\ (keyFile \in Keys \ {produced.key} /\ artifact = produced.package
            /\ loadResult # "none")
              => (loadResult = "decrypt" /\ ~model.loaded)

WrongKeyRejectedWitness ==
    /\ produced.valid /\ keyFile \in Keys \ {produced.key}
    /\ artifact = produced.package /\ loadResult = "decrypt"

\* C8: decrypt_model under the same key returns exactly the bytes that
\* encrypt_model was given, without error, and a worker started on the
\* untouched package loads a model from those bytes.
RoundTrip ==
    produced.valid =>
        /\ pc = "offline" =>
             decrypt_model(produced.key, produced.package) = Ok(produced.plain)
        /\ (keyFile = produced.key /\ artifact = produced.package /\ model.loaded)
              => model.plain = produced.plain
        /\ (keyFile = produced.key /\ artifact = produced.package /\ loadResult # "none")
              => loadResult \in {"ok", "checkpoint"}

RoundTripWitness ==
    /\ produced.valid /\ artifact = produced.package /\ model.loaded
    /\ model.plain = produced.plain /\ Len(produced.plain) >= 1

\* C9: a worker that stops has written the response line of every request
\* line it read, also when the termination signal arrived while a request was
\* in progress.
InFlightRequestCompleted ==
    (pc = "exited" /\ loadResult = "ok") => Len(Responses) = Len(stdin)

\* C10: once signal_handler has run, no further request line is read, no
\* further line is written to the protocol channel, the worker only exits, and
\* it exits with status 0.
NoRequestAfterSignal ==
    /\ [][signalled => (stdin' = stdin /\ out' = out /\ line' = line /\ pc' = "exited")]_vars
    /\ [](signalled => (pc \in {"unwinding", "exited"}
                        /\ (pc = "exited" => exitCode = 0)))

NoRequestAfterSignalWitness ==
    /\ signalled /\ pc = "exited" /\ exitCode = 0
    /\ Len(stdin) = 1 /\ Len(Responses) = 1


\* C11: when the input ends without a signal the worker has answered every
\* line it read, has written nothing for the end of input (the last line of the
\* protocol channel is READY or the response to the last request, and the
\* diagnostic channel holds one error entry per Failure response), everything
\* is flushed and the exit status is 0.
Failures == {k \in 1..Len(Responses) : ~Responses[k].success}
ErrorEntries == {i \in 1..Len(err) : err[i].what = "error"}

EndOfInputIsNormalStop ==
    (pc = "exited" /\ ~signalled /\ loadResult = "ok") =>
        /\ exitCode = 0
        /\ Len(Responses) = Len(stdin)
        /\ out[Len(out)] = ReadyLine \/ out[Len(out)].req = Len(stdin)
        /\ flushed = Len(out)
        /\ Cardinality(ErrorEntries) = Cardinality(Failures)
        /\ \A i \in ErrorEntries : err[i].req \in Failures

EndOfInputIsNormalStopWitness ==
    /\ pc = "exited" /\ ~signalled /\ exitCode = 0
    /\ Len(stdin) = 2 /\ Len(Responses) = 2
    /\ Responses[2].success

\* C12: every line of the protocol channel is READY or one complete response
\* object: a Success without error type or a Failure with one, for a request
\* that was read; no other text is ever written there.
IsResponse(l) ==
    /\ l.type = "json"
    /\ l.req \in 1..Len(stdin)
    /\ l.success <=> l.error_type = None

ProtocolLinesOnly ==
    /\ \A i \in 1..Len(out) : out[i] = ReadyLine \/ IsResponse(out[i])
    /\ flushed <= Len(out)

ProtocolLinesOnlyWitness ==
    /\ pc = "exited" /\ Len(out) = 2
    /\ out[1] = ReadyLine /\ IsResponse(out[2]) /\ ~out[2].success
    /\ Len(err) >= 6

\* C13: a key file that exists is never rewritten by the program: neither by
\* _ensure_key_exists nor by any step of the tool or the worker (only the
\* operator's replacement of the file changes it).
KeyFileWrittenOnce ==
    /\ [][(keyFile # NoFile /\ ~ReplaceKey) => keyFile' = keyFile]_vars
    /\ [](keyFile # NoFile =>
            \A gen \in Keys :
               ensure_key_exists(keyFile, gen) = [keyFile |-> keyFile, printed |-> FALSE])

KeyFileWrittenOnceWitness ==
    /\ produced.valid /\ keyFile = produced.key
    /\ loadResult = "ok" /\ stdin # <<>> /\ pc = "exited"

\* C14: no field of a line of the protocol channel or of the diagnostic channel
\* is the key, and the protocol channel is READY followed by responses that are
\* determined by the request lines and the outcome of inference alone, whatever
\* the key of the deployment.
KeyValues == Keys \cup {BadKey}

ErrorTypeOf(l) ==
    IF l.json = "invalid" THEN "JSONDecodeError"
    ELSE IF l.json # "object" THEN "AttributeError"
    ELSE IF l.imagePath \in {None, ""} THEN "ValueError"
    ELSE IF ~path_exists(l.imagePath) THEN "FileNotFoundError"
    ELSE "ValueError"

DecryptedNeverOnDisk ==
    /\ tmpFiles = {}
    /\ model.loaded => model.plain \notin tmpFiles

DecryptedNeverOnDiskWitness ==
    /\ model.loaded /\ Len(model.plain) >= 1 /\ pc = "exited" /\ stdin # <<>>
    /\ tmpFiles = {}

\* C16: load_model_securely is entered once per process: once the worker is
\* past Starting the diagnostic channel holds exactly one "loading" entry,
\* however many requests were served, and a failed load ends the process.
LoadEntries == {i \in 1..Len(err) : err[i].what = "loading"}

LoadOnce ==
    /\ Cardinality(LoadEntries) = (IF loadResult = "none" THEN 0 ELSE 1)
    /\ LoaderFailure => pc = "exited"
    /\ loadResult = "none" => pc \in {"offline", "starting", "unwinding", "exited"}

LoadOnceWitness ==
    /\ loadResult = "ok" /\ pc = "idle" /\ Len(stdin) = 1 /\ Len(Responses) = 1
    /\ Cardinality(LoadEntries) = 1


\* C17: parse_class_name, for every class name: a name that starts with "Pest_"
\* gives ("Pest", the name without that leading prefix); a name that starts with
\* "Nutrient_" gives ("Nutrient Deficiency", the name without that leading
\* prefix); "Healthy", "Water_Stress" and "Not_Plant" give ("Healthy", none),
\* ("Water Stress", none) and ("Invalid Input", none); any other name gives
\* (name, none).
Remainder(name, prefix) == SubSeq(name, Len(prefix) + 1, Len(name))

ParseClassNameContract ==
    (call.fn = "parse_class_name" /\ call.done) =>
        LET name == call.input
        IN  call.output =
              IF startswith(name, Pest_)
              THEN [category |-> Pest, subtype |-> <<Remainder(name, Pest_)>>]
              ELSE IF startswith(name, Nutrient_)
              THEN [category |-> NutrientDeficiency, subtype |-> <<Remainder(name, Nutrient_)>>]
              ELSE IF name = Healthy THEN [category |-> Healthy, subtype |-> <<>>]
              ELSE IF name = Water_Stress THEN [category |-> WaterStress, subtype |-> <<>>]
              ELSE IF name = Not_Plant THEN [category |-> InvalidInput, subtype |-> <<>>]
              ELSE [category |-> name, subtype |-> <<>>]

\* C18: get_confidence_level is a total ladder with inclusive lower bounds:
\* c >= 0.85 gives Very High, 0.70 <= c < 0.85 High, 0.55 <= c < 0.70 Moderate,
\* c < 0.55 Low; 0.85 -> Very High, 0.8499 -> High, 0.70 -> High,
\* 0.5499 -> Low; and the band never decreases when c increases.
Band(level) ==
    CASE level = "Low" -> 0
      [] level = "Moderate" -> 1
      [] level = "High" -> 2
      [] level = "Very High" -> 3

ConfidenceLadder ==
    (call.fn = "get_confidence_level" /\ call.done) =>
        LET c == call.input
            level == call.output
        IN  /\ level \in {"Low", "Moderate", "High", "Very High"}
            /\ level = "Very High" <=> c >= 8500
            /\ level = "High" <=> (7000 <= c /\ c < 8500)
            /\ level = "Moderate" <=> (5500 <= c /\ c < 7000)
            /\ level = "Low" <=> c < 5500
            /\ c = 8500 => level = "Very High"
            /\ c = 8499 => level = "High"
            /\ c = 7000 => level = "High"
            /\ c = 5499 => level = "Low"
            /\ \A lower \in {c - 1, 0} \cap Confidences :
                 Band(get_confidence_level(lower)) <= Band(level)
            /\ \A higher \in {c + 1, ConfidenceUnits} \cap Confidences :
                 Band(level) <= Band(get_confidence_level(higher))

ConfidenceLadderWitness ==
    /\ call.fn = "get_confidence_level" /\ call.done
    /\ call.input = 7000 /\ call.output = "High"

\* C19: predicted_class is a class of maximal probability, and of the classes
\* that share the maximal probability it is the one with the lowest index in
\* the class list.
ArgmaxLowestIndex ==
    (call.fn = "predict" /\ call.done) =>
        LET p == call.input
            r == call.output
        IN  \E i \in 1..Len(classes) :
              /\ r.predicted_class = classes[i]
              /\ r.confidence = p[i]
              /\ \A j \in 1..Len(classes) : p[j] <= p[i]
              /\ \A j \in 1..(i - 1) : p[j] < p[i]

ArgmaxLowestIndexWitness ==
    /\ call.fn = "predict" /\ call.done
    /\ call.input[2] = call.input[5] /\ call.input[1] < call.input[2]
    /\ \A j \in 1..Len(classes) : call.input[j] <= call.input[2]
    /\ call.output.predicted_class = Pest_Fungal

\* C20: all_probabilities holds every class of the class list exactly once with
\* its probability, in non-increasing order of probability, and two classes of
\* equal probability are in the order of the class list.
IndexOf(class) == CHOOSE i \in 1..Len(classes) : classes[i] = class

RankedStable ==
    (call.fn = "predict" /\ call.done) =>
        LET p == call.input
            ranked == call.output.all_probabilities
        IN  /\ Len(ranked) = Len(classes)
            /\ \A i \in 1..Len(classes) :
                 Cardinality({k \in 1..Len(ranked) : ranked[k].class = classes[i]}) = 1
            /\ \A k \in 1..Len(ranked) :
                 ranked[k].confidence = p[IndexOf(ranked[k].class)]
            /\ \A k \in 1..(Len(ranked) - 1) :
                 ranked[k].confidence >= ranked[k + 1].confidence
            /\ \A a, b \in 1..Len(ranked) :
                 (a < b /\ ranked[a].confidence = ranked[b].confidence)
                    => IndexOf(ranked[a].class) < IndexOf(ranked[b].class)

RankedStableWitness ==
    /\ call.fn = "predict" /\ call.done
    /\ call.input[3] = call.input[7] /\ call.input[3] > 0
    /\ call.input[1] > call.input[3]
    /\ call.output.all_probabilities[2].class = Pest_Bacterial
    /\ call.output.all_probabilities[3].class = Water_Stress


\* C21: no step of the request loop changes the model handle, the transform,
\* the key file or the artifact (the class list is a constant), and the result
\* in a Success response is the function of the request line and the loaded
\* model alone: equal request lines get equal results whatever was processed
\* in between.
RequestPcs ==
    {"idle", "parse", "check", "preprocess", "infer", "respond", "flush_response",
     "log_response", "except", "respond_error", "flush_error"}

WorkerStateKept ==
    pc \in RequestPcs =>
        (model' = model /\ transform' = transform /\ keyFile' = keyFile /\ artifact' = artifact)

RequestsLeaveStateUnchanged ==
    /\ [][WorkerStateKept]_vars
    /\ [](\A a, b \in 1..Len(Responses) :
            (Responses[a].success /\ Responses[b].success /\ stdin[a] = stdin[b])
               => Responses[a].data = Responses[b].data)
    /\ [](\A k \in 1..Len(Responses) :
            Responses[k].success =>
               Responses[k].data = <<predict(forward(model.plain, stdin[k].imagePath))>>)

RequestsLeaveStateUnchangedWitness ==
    /\ pc = "idle" /\ Len(Responses) = 3
    /\ stdin[1] = stdin[3] /\ BadLine(stdin[2])
    /\ Responses[1].success /\ Responses[3].success
    /\ Responses[1].data = Responses[3].data
    /\ model.loaded /\ transform

\* C22: requests are processed one at a time in arrival order: at most one
\* request read has no response yet, responses are in the order of the
\* requests, and while a request is parsed, checked, preprocessed or inferred
\* the responses to all earlier requests are written and flushed.
SequentialProcessing ==
    /\ Len(stdin) - Len(Responses) \in {0, 1}
    /\ \A k \in 1..Len(Responses) : Responses[k].req = k
    /\ \A i \in 1..Len(trace) : trace[i].req \in 1..Len(stdin)
    /\ \A i, j \in 1..Len(trace) : i < j => trace[i].req <= trace[j].req
    /\ pc \in {"parse", "check", "preprocess", "infer"} =>
          /\ Len(Responses) = Len(stdin) - 1
          /\ flushed = Len(out)
          /\ \A i \in 1..Len(trace) :
                trace[i].req < Len(stdin) =>
                   \E j \in 1..flushed : out[j].type = "json" /\ out[j].req = trace[i].req

SequentialProcessingWitness ==
    /\ pc = "infer" /\ Len(stdin) = 3 /\ Len(Responses) = 2
    /\ ~Responses[1].success /\ Responses[2].success
    /\ flushed = Len(out)

\* C23: for every request, on the Success path and on the Failure path, the
\* diagnostic channel holds text about the request only once the response line
\* of that request has been written to the protocol channel.
NoDiagnosticBeforeResponse ==
    \A i \in 1..Len(err) :
        err[i].req >= 1 =>
            \E j \in 1..Len(out) : out[j].type = "json" /\ out[j].req = err[i].req


\* C24: decrypt_model decrypts before it compares hashes: a package whose token
\* does not authenticate under the key fails with the decryption error whatever
\* its metadata hash is; the integrity error is raised exactly when the token
\* authenticates and the SHA-256 of the plaintext differs from the metadata
\* hash; and a worker fails with the corresponding error.
Hashes == 0..(Pow2(HashBits) - 1)

DecryptBeforeIntegrity ==
    /\ (pc = "offline" /\ artifact.kind = "package") =>
          \A k \in Keys :
             LET token == fernet_decrypt(k, artifact.data)
                 r == decrypt_model(k, artifact)
             IN  /\ ~token.ok =>
                       /\ r.exc = "InvalidToken" /\ r.msg = "decrypt"
                       /\ \A h \in Hashes :
                            decrypt_model(k, [artifact EXCEPT !.metadata.hash = h]) = r
                 /\ r.msg = "integrity" <=>
                       (token.ok /\ sha256(token.data) # artifact.metadata.hash)
                 /\ r.msg = "integrity" => r.exc = "ValueError"
    /\ (loadResult # "none" /\ keyFile \in Keys /\ artifact.kind = "package") =>
          LET token == fernet_decrypt(keyFile, artifact.data)
          IN  /\ loadResult = "decrypt" <=> ~token.ok
              /\ loadResult = "integrity" <=>
                    (token.ok /\ sha256(token.data) # artifact.metadata.hash)

DecryptBeforeIntegrityWitness ==
    /\ produced.valid /\ keyFile \in Keys \ {produced.key}
    /\ \E j \in 0..(HashBits - 1) : artifact = FlipHash(produced.package, j)
    /\ loadResult = "decrypt" /\ pc = "exited"

\* C25: the loader returns a model handle only for a package whose metadata
\* carries the supported format version and the original_size of its plaintext.
VersionGatesDecoding ==
    model.loaded =>
        /\ artifact.metadata.version = "1.0.0"
        /\ artifact.metadata.original_size = Len(model.plain)


\* C26: a request line that is not valid JSON, or whose imagePath is missing,
\* null, empty or names no existing file, gets a Failure response with an error
\* string and an error_type, and neither preprocess_image nor the forward pass
\* is called for it.
InvalidRequest(l) ==
    \/ l.json = "invalid"
    \/ l.json = "object" /\ (l.imagePath \in {None, ""} \/ ~path_exists(l.imagePath))

ValidationPrecedesInference ==
    /\ \A i \in 1..Len(trace) : ~InvalidRequest(stdin[trace[i].req])
    /\ pc \in {"preprocess", "infer", "respond", "flush_response", "log_response"} =>
          ~InvalidRequest(line)
    /\ \A k \in 1..Len(Responses) :
          InvalidRequest(stdin[k]) =>
              /\ ~Responses[k].success /\ Responses[k].data = <<>>
              /\ Responses[k].error \notin {None, ""}
              /\ Responses[k].error_type \in {"JSONDecodeError", "ValueError", "FileNotFoundError"}

ValidationPrecedesInferenceWitness ==
    /\ pc = "idle" /\ Len(Responses) = 3 /\ trace = <<>>
    /\ stdin[1].json = "invalid" /\ stdin[2].imagePath = "" /\ stdin[3].imagePath = "absent.jpg"
    /\ Responses[3].error_type = "FileNotFoundError" /\ Responses[3].error = "Image not found"

\* C27: when the calls of a request return and no signal arrives, every request
\* line that was read is eventually answered by its response line, flushed to
\* the protocol channel, with the worker back at the for statement or stopped
\* at the end of input.
Answered(k) == \E j \in 1..flushed : out[j].type = "json" /\ out[j].req = k

EveryRequestAnswered ==
    \A k \in 1..MaxRequests :
        (Len(stdin) >= k) ~> (signalled \/ (Answered(k) /\ pc \in {"idle", "exited"}))

EveryRequestAnsweredWitness ==
    /\ ~signalled /\ pc = "exited" /\ Len(stdin) = MaxRequests
    /\ \A k \in 1..MaxRequests : Answered(k)
    /\ ~Responses[1].success /\ Responses[2].success


\* C28: for each of the eight classes of the class list the explanation text
\* and the recommendation list are the entries of that class in the two
\* dictionaries; for any other class they are "Plant classified as <class>."
\* and ["Consult agricultural expert"]; and the sentence that recommends manual
\* inspection is appended exactly when the level is Low.
KnownClasses == {classes[i] : i \in 1..Len(classes)}

ExplanationLookup ==
    /\ DOMAIN explanations = KnownClasses /\ DOMAIN recommendations = KnownClasses
    /\ (call.fn = "generate_explanation" /\ call.done) =>
          LET class == call.input.predicted_class
              e == call.output
          IN  /\ class \in KnownClasses =>
                    (e.text = explanations[class] /\ e.predicted_class = <<>>)
              /\ class \notin KnownClasses =>
                    /\ e.text = "Plant classified as {predicted_class}."
                    /\ e.predicted_class = <<class>>
              /\ e.advisory # "" <=> call.input.conf_level = "Low"
              /\ e.advisory \in {"", " Manual inspection recommended for confirmation."}
              /\ e.conf_level = call.input.conf_level
    /\ (call.fn = "get_recommendations" /\ call.done) =>
          /\ call.input \in KnownClasses =>
                (call.output = recommendations[call.input] /\ call.output # <<>>)
          /\ call.input \notin KnownClasses =>
                call.output = <<"Consult agricultural expert">>
    /\ (call.fn = "predict" /\ call.done) =>
          LET r == call.output
          IN  /\ r.explanation.text = explanations[r.predicted_class]
              /\ r.recommendations = recommendations[r.predicted_class]
              /\ r.explanation.advisory # "" <=> r.confidence_level = "Low"

ExplanationLookupWitness ==
    /\ call.fn = "generate_explanation" /\ call.done
    /\ call.input.predicted_class = Pest_ \o Pest_
    /\ call.input.conf_level = "Low" /\ call.input.confidence = 5499
    /\ call.output.advisory # ""

\* C30: the first entry of all_probabilities is the predicted class and its
\* confidence is the confidence of the result, also when several classes share
\* the largest probability.
TopOfRankingIsPrediction ==
    (call.fn = "predict" /\ call.done) =>
        LET r == call.output
        IN  /\ r.all_probabilities[1].class = r.predicted_class
            /\ r.all_probabilities[1].confidence = r.confidence
            /\ r.all_probabilities[1].confidence_percentage = r.confidence_percentage

TopOfRankingIsPredictionWitness ==
    /\ call.fn = "predict" /\ call.done
    /\ call.input[4] = call.input[6] /\ call.input[4] > 0
    /\ \A j \in 1..Len(classes) : call.input[j] <= call.input[4]
    /\ call.output.predicted_class = Pest_Insect
    /\ call.output.all_probabilities[2].class = Nutrient_Potassium


\* C29: in inference.py a call of initialize_model made once a model is loaded
\* changes neither the cached model nor the transform and makes no call that
\* touches a file; in inference_server.py every call of load_model_securely
\* runs the load again, whether or not a model is loaded.
CachedCallIsNoOp ==
    (call.fn = "initialize_model" /\ model.loaded) =>
        /\ model' = model /\ transform' = transform
        /\ keyFile' = keyFile /\ artifact' = artifact /\ produced' = produced
        /\ trace' = Append(trace, Called("initialize_model", 0, <<>>))

ServerCallReloads ==
    (call.fn = "load_model_securely" /\ model.loaded) =>
        /\ Len(err') = Len(err) + 2
        /\ err'[Len(err) + 1] = Diag("loading", 0)
        /\ trace' = Append(trace, Called("load_model_securely", 0, <<>>))

Loads == {i \in 1..Len(trace) : trace[i].fn = "load_model"}

InitializeIdempotent ==
    /\ [][CachedCallIsNoOp]_vars
    /\ [][ServerCallReloads]_vars
    /\ []((call.fn = "initialize_model" /\ model.loaded) =>
            /\ Loads # {}
            /\ \A i \in Loads, j \in 1..Len(trace) :
                  (j > i /\ \A k \in Loads : k <= i) => trace[j].fn = "initialize_model")
    /\ [](call.fn = "load_model_securely" => Cardinality(LoadEntries) = NumCalls)

InitializeIdempotentWitness ==
    /\ call.fn = "initialize_model" /\ model.loaded /\ NumCalls = MaxCalls
    /\ Cardinality(Loads) = 1
    /\ trace[Len(trace)].fn = "initialize_model"

\* C31: starting the worker never creates key material: no step of the worker
\* changes the key file; when the key file is absent the loader raises
\* FileNotFoundError without reaching ModelEncryption (no key is written, no
\* line is printed) and the worker exits with status 1 and an empty protocol
\* channel; and the failure reported is the missing artifact when the artifact
\* is missing too, the missing key only when the artifact is there.
StartupWithoutKey == pc # "offline" /\ keyFile = NoFile /\ loadResult # "none"

NoKeyCreatedAtStartup ==
    /\ [][pc # "offline" => keyFile' = keyFile]_vars
    /\ [](StartupWithoutKey =>
            /\ pc = "exited" /\ exitCode = 1 /\ out = <<>> /\ ~model.loaded
            /\ loadResult = (IF artifact.kind = "absent" THEN "model" ELSE "key"))
    /\ [](\A gen \in Keys, construct \in BOOLEAN :
            LET r == load_model_securely(NoFile, artifact, gen, construct)
            IN  /\ r.keyFile = NoFile /\ ~r.printed
                /\ ~r.res.ok /\ r.res.exc = "FileNotFoundError")
    /\ [](artifact.kind = "absent" =>
            \A kf \in Keys \cup {NoFile, BadKey}, gen \in Keys, construct \in BOOLEAN :
               load_model_securely(kf, artifact, gen, construct).res.msg = "model")

NoKeyCreatedAtStartupWitness ==
    /\ pc = "exited" /\ keyFile = NoFile /\ artifact.kind = "absent"
    /\ loadResult = "model" /\ exitCode = 1 /\ out = <<>>

\* C32: a termination signal that arrives while the worker starts, before READY
\* is written, ends the process with exit status 0 and nothing on the protocol
\* channel, ever; a non-zero exit status of the worker occurs only after a
\* loader failure and never after a signal; (witness) exit status 0 occurs with
\* READY never emitted.
SignalBeforeReady == signalled /\ out = <<>>

SignalBeforeReadyStaysSilent ==
    SignalBeforeReady =>
        /\ out' = <<>> /\ flushed' = 0 /\ stdin' = stdin
        /\ pc' = "exited" /\ exitCode' = 0

ArgsOk == call.argv # <<>>
ImageExists == ArgsOk /\ path_exists(call.argv[1])
LoadOk == loadResult = "ok" /\ model.loaded
PredictionOk ==
    /\ trace # <<>>
    /\ trace[Len(trace)].fn = "forward" /\ trace[Len(trace)].data # <<>>

SingleShotContract ==
    /\ Len(out) <= 1
    /\ \A i \in 1..Len(out) : out[i].type = "json"
    /\ loadResult # "none" => ImageExists
    /\ (pc = "exited" /\ ~signalled) =>
          /\ Len(out) = 1 /\ flushed = 1
          /\ exitCode \in {0, 1}
          /\ out[1].success <=> exitCode = 0
          /\ out[1].success <=> (ArgsOk /\ ImageExists /\ LoadOk /\ PredictionOk)
          /\ out[1].success => /\ out[1].data = trace[Len(trace)].data
                               /\ out[1].error_type = None
          /\ ~out[1].success => /\ out[1].error_type \notin {None, "SystemExit"}
                                /\ out[1].error # None
                                /\ out[1].data = <<>>
          /\ LoaderFailure => (~out[1].success /\ out[1].error = loadResult)

SingleShotContractWitness ==
    /\ pc = "exited" /\ ~signalled
    /\ call.program = "inference_server.py"
    /\ LoaderFailure /\ loadResult = "key"
    /\ Len(out) = 1 /\ ~out[1].success /\ exitCode = 1

====
